---- MODULE Spec2Model ----
(***************************************************************************)
(* A model of src/src/05-objects-tasks.js: the cssSelectorBuilder object   *)
(* (a prototype shared by every builder derived from it) and the Rectangle *)
(* factory.                                                                *)
(*                                                                         *)
(* A JavaScript object is a record of its OWN properties; a property the   *)
(* object does not own is read from its prototype, which for every object  *)
(* the code creates is the global cssSelectorBuilder.  Strings are TLA+    *)
(* strings and template literals are concatenations.                       *)
(***************************************************************************)
EXTENDS Integers, Sequences, FiniteSets, TLC

VARIABLES
    cssSelectorBuilder, \* the global object of line 120 (its data properties)
    objs,               \* the builder objects the caller holds, by variable
    hist,               \* per held object: the calls that produced it
    last,               \* the most recent call: receiver, arguments, outcome
    rectPc,             \* Rectangle scenario: "start", "built", "measured"
    rectArgs,           \* Rectangle scenario: the arguments <<width, height>>
    rect,               \* Rectangle scenario: the object returned
    area                \* Rectangle scenario: what getArea() returned

vars == <<cssSelectorBuilder, objs, hist, last, rectPc, rectArgs, rect, area>>

(***************************************************************************)
(* Bounds of the model.                                                    *)
(***************************************************************************)
NSlots == 2           \* caller variables that can hold a builder
MaxChars == 7         \* characters of selector text the held builders may total
MaxInt == 5           \* Rectangle arguments range over -MaxInt..MaxInt

Slots == 1..NSlots
Values == {"a", "b"}          \* the value argument of an add-operation
Combinators == {"+", " "}     \* the combinator argument of combine
RectInts == (0 - MaxInt)..MaxInt

(***************************************************************************)
(* Objects and property lookup.                                            *)
(***************************************************************************)
\* The data properties of the object literal, lines 121-125.
Origin == [result |-> "", order |-> 0, occurEl |-> 0, occurId |-> 0, occurPE |-> 0]

\* this.prop: an own property, else the prototype's (Object.create(cssSelectorBuilder)).
Get(this, prop) ==
    IF prop \in DOMAIN this THEN this[prop] ELSE cssSelectorBuilder[prop]

\* obj.prop = v: creates or overwrites an own property of obj.
SetProp(obj, prop, v) ==
    [p \in DOMAIN obj \cup {prop} |-> IF p = prop THEN v ELSE obj[p]]

\* Object.create(cssSelectorBuilder): a new object with no own property.
ObjectCreate == [p \in {} |-> 0]

None == "none"
OrderError == "Selector parts should be arranged in the following order: element, id, class, attribute, pseudo-class, pseudo-element"
OccurError == "Element, id and pseudo-element should not occur more then one time inside the selector"
Undefined == [undefined |-> TRUE]

\* The outcome of a call: the error thrown (None if it returned), the receiver
\* after the call, the value returned and what was written to the console.
Throw(this, msg, log) == [thrown |-> msg, this |-> this, ret |-> Undefined, log |-> log]
Return(this, ret) == [thrown |-> None, this |-> this, ret |-> ret, log |-> <<>>]

\* Variant of checkOrder: the comparison is >= instead of >.
checkOrder_inclusive(this, order) == Get(this, "order") >= order

\* checkOrder(order) throws exactly when this holds (line 128).
checkOrder(this, order) == Get(this, "order") > order

\* Variant of checkOccur: the comparison is with 2 instead of 1.
checkOccur_two(occur) == occur = 2

\* checkOccur(occur) logs and throws exactly when this holds (line 136).
checkOccur(occur) == occur = 1

\* Variant of element: line 144 (this.occurEl = 1) is not commented out.
element_marksThis(this, value) ==
    IF checkOrder(this, 1) THEN Throw(this, OrderError, <<>>)
    ELSE IF checkOccur(Get(this, "occurEl"))
         THEN Throw(this, OccurError, <<Get(this, "occurEl")>>)
    ELSE LET marked == SetProp(this, "occurEl", 1)
             o1 == SetProp(ObjectCreate, "order", 1)
             o2 == SetProp(o1, "occurEl", 1)
             cssObject == SetProp(o2, "result", Get(marked, "result") \o value)
         IN  Return(marked, cssObject)

element(this, value) ==
    IF checkOrder(this, 1) THEN Throw(this, OrderError, <<>>)
    ELSE IF checkOccur(Get(this, "occurEl"))
         THEN Throw(this, OccurError, <<Get(this, "occurEl")>>)
    ELSE LET o1 == SetProp(ObjectCreate, "order", 1)
             o2 == SetProp(o1, "occurEl", 1)
             cssObject == SetProp(o2, "result", Get(this, "result") \o value)
         IN  Return(this, cssObject)

\* Variant of id: line 160 (cssObject.occurId = 1) is missing.
id_noFlag(this, value) ==
    IF checkOrder(this, 2) THEN Throw(this, OrderError, <<>>)
    ELSE IF checkOccur(Get(this, "occurId"))
         THEN Throw(this, OccurError, <<Get(this, "occurId")>>)
    ELSE LET o1 == SetProp(ObjectCreate, "order", 2)
             cssObject == SetProp(o1, "result", Get(this, "result") \o "#" \o value)
         IN  Return(this, cssObject)

\* Variant of id: checkOccur is given occurEl (as in the commented line 158)
\* instead of occurId.
id_checksOccurEl(this, value) ==
    IF checkOrder(this, 2) THEN Throw(this, OrderError, <<>>)
    ELSE IF checkOccur(Get(this, "occurEl"))
         THEN Throw(this, OccurError, <<Get(this, "occurEl")>>)
    ELSE LET o1 == SetProp(ObjectCreate, "order", 2)
             o2 == SetProp(o1, "occurId", 1)
             cssObject == SetProp(o2, "result", Get(this, "result") \o "#" \o value)
         IN  Return(this, cssObject)

id(this, value) ==
    IF checkOrder(this, 2) THEN Throw(this, OrderError, <<>>)
    ELSE IF checkOccur(Get(this, "occurId"))
         THEN Throw(this, OccurError, <<Get(this, "occurId")>>)
    ELSE LET o1 == SetProp(ObjectCreate, "order", 2)
             o2 == SetProp(o1, "occurId", 1)
             cssObject == SetProp(o2, "result", Get(this, "result") \o "#" \o value)
         IN  Return(this, cssObject)

\* Variant of class: the receiver itself is updated and returned.
class_mutating(this, value) ==
    IF checkOrder(this, 3) THEN Throw(this, OrderError, <<>>)
    ELSE LET o1 == SetProp(this, "order", 3)
             cssObject == SetProp(o1, "result", Get(this, "result") \o "." \o value)
         IN  Return(cssObject, cssObject)

class(this, value) ==
    IF checkOrder(this, 3) THEN Throw(this, OrderError, <<>>)
    ELSE LET o1 == SetProp(ObjectCreate, "order", 3)
             cssObject == SetProp(o1, "result", Get(this, "result") \o "." \o value)
         IN  Return(this, cssObject)

\* Variant of attr: the closing bracket is missing from the template.
attr_unclosed(this, value) ==
    IF checkOrder(this, 4) THEN Throw(this, OrderError, <<>>)
    ELSE LET o1 == SetProp(ObjectCreate, "order", 4)
             cssObject == SetProp(o1, "result", Get(this, "result") \o "[" \o value)
         IN  Return(this, cssObject)

\* Variant of attr: the order assigned is that of class (3 instead of 4).
attr_orderThree(this, value) ==
    IF checkOrder(this, 4) THEN Throw(this, OrderError, <<>>)
    ELSE LET o1 == SetProp(ObjectCreate, "order", 3)
             cssObject == SetProp(o1, "result",
                                  Get(this, "result") \o "[" \o value \o "]")
         IN  Return(this, cssObject)

attr(this, value) ==
    IF checkOrder(this, 4) THEN Throw(this, OrderError, <<>>)
    ELSE LET o1 == SetProp(ObjectCreate, "order", 4)
             cssObject == SetProp(o1, "result",
                                  Get(this, "result") \o "[" \o value \o "]")
         IN  Return(this, cssObject)

\* Variant of pseudoClass: the call of checkOrder (line 184) is missing.
pseudoClass_noCheck(this, value) ==
    LET o1 == SetProp(ObjectCreate, "order", 5)
        cssObject == SetProp(o1, "result", Get(this, "result") \o ":" \o value)
    IN  Return(this, cssObject)

pseudoClass(this, value) ==
    IF checkOrder(this, 5) THEN Throw(this, OrderError, <<>>)
    ELSE LET o1 == SetProp(ObjectCreate, "order", 5)
             cssObject == SetProp(o1, "result", Get(this, "result") \o ":" \o value)
         IN  Return(this, cssObject)

\* Variant of pseudoElement: the text is appended to the receiver before the
\* occurrence check runs.
pseudoElement_appendFirst(this, value) ==
    IF checkOrder(this, 6) THEN Throw(this, OrderError, <<>>)
    ELSE LET appended == SetProp(this, "result", Get(this, "result") \o "::" \o value)
         IN  IF checkOccur(Get(this, "occurPE"))
             THEN Throw(appended, OccurError, <<Get(this, "occurPE")>>)
             ELSE LET o1 == SetProp(ObjectCreate, "order", 6)
                      o2 == SetProp(o1, "occurPE", 1)
                      cssObject == SetProp(o2, "result", Get(appended, "result"))
                  IN  Return(this, cssObject)

\* Variant of pseudoElement: the new object is created from the receiver,
\* whose properties it then shows, instead of from cssSelectorBuilder.
pseudoElement_fromThis(this, value) ==
    IF checkOrder(this, 6) THEN Throw(this, OrderError, <<>>)
    ELSE IF checkOccur(Get(this, "occurPE"))
         THEN Throw(this, OccurError, <<Get(this, "occurPE")>>)
    ELSE LET o1 == SetProp(this, "order", 6)
             o2 == SetProp(o1, "occurPE", 1)
             cssObject == SetProp(o2, "result", Get(this, "result") \o "::" \o value)
         IN  Return(this, cssObject)

pseudoElement(this, value) ==
    IF checkOrder(this, 6) THEN Throw(this, OrderError, <<>>)
    ELSE IF checkOccur(Get(this, "occurPE"))
         THEN Throw(this, OccurError, <<Get(this, "occurPE")>>)
    ELSE LET o1 == SetProp(ObjectCreate, "order", 6)
             o2 == SetProp(o1, "occurPE", 1)
             cssObject == SetProp(o2, "result", Get(this, "result") \o "::" \o value)
         IN  Return(this, cssObject)

\* Variant of combine: the new object is created from selector1, whose
\* properties it then shows, instead of from cssSelectorBuilder.
combine_fromSelector1(selector1, combinator, selector2) ==
    SetProp(selector1, "result",
            Get(selector1, "result") \o " " \o combinator \o " "
                \o Get(selector2, "result"))

\* Variant of combine: the result also takes the order of the right half.
combine_orderOfSelector2(selector1, combinator, selector2) ==
    SetProp(SetProp(ObjectCreate, "order", Get(selector2, "order")), "result",
            Get(selector1, "result") \o " " \o combinator \o " "
                \o Get(selector2, "result"))

\* combine reads selector1.result and selector2.result and never reads this.
combine(selector1, combinator, selector2) ==
    SetProp(ObjectCreate, "result",
            Get(selector1, "result") \o " " \o combinator \o " "
                \o Get(selector2, "result"))

\* Variant of stringify: reads the global object instead of this.
stringify_global(this) == cssSelectorBuilder.result

stringify(this) == Get(this, "result")


(***************************************************************************)
(* Rectangle (lines 23-31): the object literal and its getArea method,     *)
(* which closes over the parameters and not over the object's properties.  *)
(***************************************************************************)
\* Variant of Rectangle: the two properties are initialised the wrong way round.
Rectangle_swapped(width, height) ==
    [height |-> width, width |-> height, getArea |-> [width |-> width, height |-> height]]

Rectangle(width, height) ==
    [height |-> height, width |-> width, getArea |-> [width |-> width, height |-> height]]

getArea(r) == r.getArea.width * r.getArea.height

(***************************************************************************)
(* The caller.  Receiver 0 is the global cssSelectorBuilder, receiver s in *)
(* Slots is the object held in variable s.  hist records how each held     *)
(* object was obtained: the parts added, in order, and for an object that  *)
(* descends from combine the string the combined halves stood for.         *)
(***************************************************************************)
Receivers == {0} \cup DOMAIN objs
Dests == {d \in Slots : d <= Cardinality(DOMAIN objs) + 1}

This(r) == IF r = 0 THEN cssSelectorBuilder ELSE objs[r]

NoHist == [combined |-> FALSE, base |-> "", parts |-> <<>>]
HistOf(r) == IF r = 0 THEN NoHist ELSE hist[r]

Store(f, d, x) == [s \in DOMAIN f \cup {d} |-> IF s = d THEN x ELSE f[s]]

RectIdle == UNCHANGED <<rectPc, rectArgs, rect, area>>

\* The selector text held in the caller's variables, in characters.
RECURSIVE Chars(_, _)
Chars(f, s) ==
    IF s = 0 THEN 0
    ELSE (IF s \in DOMAIN f THEN Len(Get(f[s], "result")) ELSE 0) + Chars(f, s - 1)

\* One add-operation `name` of ordinal `ordinal`, called as This(r).name(value)
\* with outcome `out`; the returned builder is assigned to variable d.
AddCall(name, ordinal, r, value, d, out) ==
    /\ last.op = "none"
    /\ out.thrown # None => d = 1
    /\ cssSelectorBuilder' = IF r = 0 THEN out.this ELSE cssSelectorBuilder
    /\ LET kept == IF r = 0 THEN objs ELSE Store(objs, r, out.this)
       IN  objs' = IF out.thrown = None THEN Store(kept, d, out.ret) ELSE kept
    /\ Chars(objs', NSlots) <= MaxChars
    /\ hist' = IF out.thrown = None
                 THEN Store(hist, d,
                            [HistOf(r) EXCEPT
                                !.parts = Append(@, <<ordinal, value>>)])
                 ELSE hist
    /\ last' = [op |-> name, ordinal |-> ordinal, recv |-> r, args |-> <<value>>,
                dest |-> IF out.thrown = None THEN d ELSE 0,
                before |-> This(r), after |-> out.this, lineage |-> HistOf(r),
                thrown |-> out.thrown, ret |-> out.ret, log |-> out.log]
    /\ RectIdle

Element(r, v, d) == AddCall("element", 1, r, v, d, element(This(r), v))
Id(r, v, d) == AddCall("id", 2, r, v, d, id(This(r), v))
Class(r, v, d) == AddCall("class", 3, r, v, d, class(This(r), v))
Attr(r, v, d) == AddCall("attr", 4, r, v, d, attr(This(r), v))
PseudoClass(r, v, d) == AddCall("pseudoClass", 5, r, v, d, pseudoClass(This(r), v))
PseudoElement(r, v, d) ==
    AddCall("pseudoElement", 6, r, v, d, pseudoElement(This(r), v))

\* The string a construction history stands for: each part's formatted
\* append, in application order, after the combined halves (if any).
Format(part) ==
    CASE part[1] = 1 -> part[2]
      [] part[1] = 2 -> "#" \o part[2]
      [] part[1] = 3 -> "." \o part[2]
      [] part[1] = 4 -> "[" \o part[2] \o "]"
      [] part[1] = 5 -> ":" \o part[2]
      [] part[1] = 6 -> "::" \o part[2]

RECURSIVE Concat(_)
Concat(parts) ==
    IF parts = <<>> THEN "" ELSE Format(Head(parts)) \o Concat(Tail(parts))

Expected(h) == h.base \o Concat(h.parts)

\* builder.combine(This(i), c, This(j)), assigned to variable d.
Combine(i, c, j, d) ==
    LET comb == combine(This(i), c, This(j))
    IN  /\ last.op = "none"
        /\ objs' = Store(objs, d, comb)
        /\ Chars(objs', NSlots) <= MaxChars
        /\ hist' = Store(hist, d,
                         [combined |-> TRUE, parts |-> <<>>,
                          base |-> Expected(HistOf(i)) \o " " \o c \o " "
                                       \o Expected(HistOf(j))])
        /\ last' = [op |-> "combine", ordinal |-> 0, recv |-> 0,
                    args |-> <<i, c, j>>, dest |-> d,
                    before |-> <<This(i), This(j)>>,
                    after |-> <<This(i), This(j)>>,
                    lineage |-> <<HistOf(i), HistOf(j)>>,
                    thrown |-> None, ret |-> comb, log |-> <<>>]
        /\ UNCHANGED cssSelectorBuilder
        /\ RectIdle

\* This(r).stringify()
Stringify(r) ==
    /\ last.op = "none"
    /\ last' = [op |-> "stringify", ordinal |-> 0, recv |-> r, args |-> <<>>,
                dest |-> 0, before |-> This(r), after |-> This(r),
                lineage |-> HistOf(r), thrown |-> None,
                ret |-> stringify(This(r)), log |-> <<>>]
    /\ UNCHANGED <<cssSelectorBuilder, objs, hist>>
    /\ RectIdle

NoCall == [op |-> "none", ordinal |-> 0, recv |-> 0, args |-> <<>>, dest |-> 0,
           before |-> Origin, after |-> Origin, lineage |-> NoHist,
           thrown |-> None, ret |-> Undefined, log |-> <<>>]

\* The caller has taken the outcome of the call (the returned value is
\* assigned, the exception caught) and goes on to its next statement.
Resume ==
    /\ last.op # "none"
    /\ last' = NoCall
    /\ UNCHANGED <<cssSelectorBuilder, objs, hist>>
    /\ RectIdle

Init ==
    /\ cssSelectorBuilder = Origin
    /\ objs = [s \in {} |-> Origin]
    /\ hist = [s \in {} |-> NoHist]
    /\ last = NoCall
    /\ rectPc = "start"
    /\ rectArgs = <<0, 0>>
    /\ rect = Rectangle(0, 0)
    /\ area = 0

Next ==
    \/ \E r \in Receivers, v \in Values, d \in Dests : Element(r, v, d)
    \/ \E r \in Receivers, v \in Values, d \in Dests : Id(r, v, d)
    \/ \E r \in Receivers, v \in Values, d \in Dests : Class(r, v, d)
    \/ \E r \in Receivers, v \in Values, d \in Dests : Attr(r, v, d)
    \/ \E r \in Receivers, v \in Values, d \in Dests : PseudoClass(r, v, d)
    \/ \E r \in Receivers, v \in Values, d \in Dests : PseudoElement(r, v, d)
    \/ \E i \in Receivers, j \in Receivers, c \in Combinators, d \in Dests :
           Combine(i, c, j, d)
    \/ \E r \in Receivers : Stringify(r)
    \/ Resume

Spec == Init /\ [][Next]_vars

(***************************************************************************)
(* The Rectangle scenario: the arguments are drawn from RectInts, the      *)
(* object is built, then getArea() is called on it.                        *)
(***************************************************************************)
BuilderIdle == UNCHANGED <<cssSelectorBuilder, objs, hist, last>>

NewRectangle ==
    /\ rectPc = "start"
    /\ rect' = Rectangle(rectArgs[1], rectArgs[2])
    /\ rectPc' = "built"
    /\ UNCHANGED <<rectArgs, area>>
    /\ BuilderIdle

CallGetArea ==
    /\ rectPc = "built"
    /\ area' = getArea(rect)
    /\ rectPc' = "measured"
    /\ UNCHANGED <<rectArgs, rect>>
    /\ BuilderIdle

InitRect ==
    /\ cssSelectorBuilder = Origin
    /\ objs = [s \in {} |-> Origin]
    /\ hist = [s \in {} |-> NoHist]
    /\ last = NoCall
    /\ rectPc = "start"
    /\ rectArgs \in RectInts \X RectInts
    /\ rect = Rectangle(0, 0)
    /\ area = 0

NextRect == NewRectangle \/ CallGetArea

SpecRect == InitRect /\ [][NextRect]_vars

(***************************************************************************)
(* Properties.  A construction history h gives the specification's view of *)
(* a builder: its stage is the ordinal of the part added last (0 when none *)
(* was added since the origin or since combine), a category has been       *)
(* applied when a part of its ordinal is in h.parts.                       *)
(***************************************************************************)
AddOps == {"element", "id", "class", "attr", "pseudoClass", "pseudoElement"}
OnceOrdinals == {1, 2, 6}

Stage(h) == IF h.parts = <<>> THEN 0 ELSE h.parts[Len(h.parts)][1]
Count(h, ordinal) == Cardinality({i \in DOMAIN h.parts : h.parts[i][1] = ordinal})
Applied(h, ordinal) == Count(h, ordinal) > 0
NonDecreasing(parts) ==
    \A i \in DOMAIN parts : \A j \in DOMAIN parts : i <= j => parts[i][1] <= parts[j][1]
ValidParts(parts) ==
    /\ NonDecreasing(parts)
    /\ \A o \in OnceOrdinals :
           Cardinality({i \in DOMAIN parts : parts[i][1] = o}) <= 1
AddCalled == last.op \in AddOps

\* C1: an add-operation throws the order error exactly when its ordinal is
\* strictly less than the stage of its receiver (so id after class throws it,
\* and an ordinal greater than or equal to the stage never does).
C1_OrderErrorIffBelowStage ==
    AddCalled => ((last.thrown = OrderError) <=> (last.ordinal < Stage(last.lineage)))

\* C1 witness: id was called on a builder whose last part is a class, and the
\* order error was thrown.
C1_Witness ==
    /\ last.op = "id"
    /\ Stage(last.lineage) = 3
    /\ last.thrown = OrderError

\* C2 as stated: a once-limited add-operation called on a builder whose chain
\* has applied the same category at any earlier point throws the occurrence
\* error.
C2_Original ==
    (AddCalled /\ last.ordinal \in OnceOrdinals /\ Applied(last.lineage, last.ordinal))
        => last.thrown = OccurError

\* C2 as amended: a once-limited add-operation called on a builder whose chain
\* of add-operations has applied the same category always throws; it throws
\* the occurrence error when that category was applied by the immediately
\* preceding call, and the order error when a part of higher ordinal was
\* added in between.
C2_RepeatFails ==
    (AddCalled /\ last.ordinal \in OnceOrdinals /\ Applied(last.lineage, last.ordinal))
        => /\ last.thrown # None
           /\ (Stage(last.lineage) = last.ordinal) => last.thrown = OccurError
           /\ (Stage(last.lineage) # last.ordinal) => last.thrown = OrderError

\* C2 witness: id called directly after id threw the occurrence error.
C2_Witness ==
    /\ last.op = "id"
    /\ last.lineage.parts # <<>>
    /\ Stage(last.lineage) = 2
    /\ last.thrown = OccurError

\* C3: a chain of add-operations from the origin with non-decreasing ordinals
\* and at most one element, id and pseudo-element never throws, and every
\* builder of the chain holds the concatenation of the formatted parts in
\* application order.
C3_ValidChainRenders ==
    /\ \A s \in DOMAIN objs :
           ~hist[s].combined => stringify(objs[s]) = Concat(hist[s].parts)
    /\ (/\ AddCalled
        /\ ~last.lineage.combined
        /\ ValidParts(Append(last.lineage.parts, <<last.ordinal, last.args[1]>>)))
           => /\ last.thrown = None
              /\ stringify(last.ret)
                     = Concat(Append(last.lineage.parts, <<last.ordinal, last.args[1]>>))

\* C3 witness: class added twice in a row after an id, then an attribute.
C3_Witness ==
    /\ last.op = "attr"
    /\ last.thrown = None
    /\ ~last.lineage.combined
    /\ Len(last.lineage.parts) = 2
    /\ last.lineage.parts[1][1] = 3
    /\ last.lineage.parts[2][1] = 3
    /\ stringify(last.ret) = ".a.b[a]"

\* C4: an add-operation leaves its receiver as it was, so every held builder,
\* whatever was derived from it or beside it, keeps the text, stage and flags
\* of its own construction history.
C4_ReceiverUnchanged ==
    /\ AddCalled =>
           /\ last.after = last.before
           /\ last.recv = 0 => cssSelectorBuilder = last.before
           /\ (last.recv # 0 /\ last.dest # last.recv) => objs[last.recv] = last.before
    /\ \A s \in DOMAIN objs :
           /\ stringify(objs[s]) = Expected(hist[s])
           /\ Get(objs[s], "order") = Stage(hist[s])

\* C4 witness: builder "a" was extended to "a#a" and then, along another
\* branch, to "a.a"; both branches are held.
C4_Witness ==
    /\ last.op = "class"
    /\ last.thrown = None
    /\ stringify(last.before) = "a"
    /\ DOMAIN objs = {1, 2}
    /\ stringify(objs[last.dest]) = "a.a"
    /\ \E s \in DOMAIN objs : stringify(objs[s]) = "a#a"

\* C5: the global cssSelectorBuilder keeps its initial properties (empty
\* result, order 0, no occurrence flag) whatever is called.
C5_OriginInvariant == cssSelectorBuilder = Origin

\* C5 witness: after a chain that used a pseudo-element and is still held, a
\* new chain started from the global object with pseudoElement succeeded.
C5_Witness ==
    /\ last.op = "pseudoElement"
    /\ last.recv = 0
    /\ last.thrown = None
    /\ \E s \in DOMAIN objs : s # last.dest /\ Applied(hist[s], 6)

\* C6: combine returns an object whose result is the left text, a space, the
\* combinator, a space and the right text, whose order is 0 and whose
\* occurrence flags are 0; it does not throw and leaves both arguments as
\* they were.
C6_Combine ==
    last.op = "combine" =>
        /\ last.thrown = None
        /\ stringify(last.ret)
               = Expected(last.lineage[1]) \o " " \o last.args[2] \o " "
                     \o Expected(last.lineage[2])
        /\ Get(last.ret, "order") = 0
        /\ Get(last.ret, "occurEl") = 0
        /\ Get(last.ret, "occurId") = 0
        /\ Get(last.ret, "occurPE") = 0
        /\ last.after = last.before
        /\ \A k \in {1, 3} :
               (last.args[k] # 0 /\ last.args[k] # last.dest)
                   => objs[last.args[k]] = last.before[(k + 1) \div 2]

\* C6 witness: the left argument descends from a result of combine and has
\* had an element added to it (its order is 1 and its occurEl is 1).
C6_Witness ==
    /\ last.op = "combine"
    /\ last.lineage[1].combined
    /\ Applied(last.lineage[1], 1)
    /\ Get(last.before[1], "order") = 1
    /\ Get(last.before[1], "occurEl") = 1

\* C7: a call that throws returns nothing and changes nothing: the receiver,
\* the global object and every held builder are as before the call.
C7_FailureChangesNothing ==
    [][last'.thrown # None =>
           /\ last'.ret = Undefined
           /\ last'.after = last'.before
           /\ cssSelectorBuilder' = cssSelectorBuilder
           /\ objs' = objs
           /\ hist' = hist]_vars

\* C7 witness: pseudoElement called on a builder that ends in a pseudo-element
\* threw, and the builder is held unchanged.
C7_Witness ==
    /\ last.op = "pseudoElement"
    /\ last.thrown = OccurError
    /\ last.recv # 0
    /\ objs[last.recv] = last.before
    /\ stringify(objs[last.recv]) = Expected(hist[last.recv])

\* C8: stringify returns the text of the builder's construction history, the
\* same at every call, and changes neither the builder nor the global object.
C8_StringifyPure ==
    last.op = "stringify" =>
        /\ last.thrown = None
        /\ last.ret = Expected(last.lineage)
        /\ last.after = last.before
        /\ This(last.recv) = last.before

\* C8 witness: stringify on a builder from which another builder has been
\* derived.
C8_Witness ==
    /\ last.op = "stringify"
    /\ last.recv = 1
    /\ last.ret = "#a"
    /\ 2 \in DOMAIN objs
    /\ hist[2].parts = Append(hist[1].parts, <<3, "b">>)

\* C9: a builder obtained from the origin by add-operations alone has at most
\* one element part, one id part and one pseudo-element part.
C9_AtMostOnce ==
    \A s \in DOMAIN objs :
        ~hist[s].combined => \A o \in OnceOrdinals : Count(hist[s], o) <= 1

\* C9 witness: element was attempted on a chain that already has an element
\* followed by another part, and was refused.
C9_Witness ==
    /\ last.op = "element"
    /\ ~last.lineage.combined
    /\ Applied(last.lineage, 1)
    /\ Len(last.lineage.parts) >= 2
    /\ last.thrown # None

\* C10: Rectangle(w, h) returns an object whose width is w, whose height is h
\* and whose getArea() returns w * h.
C10_Rectangle ==
    /\ rectPc \in {"built", "measured"} =>
           /\ rect.width = rectArgs[1]
           /\ rect.height = rectArgs[2]
    /\ rectPc = "measured" => area = rectArgs[1] * rectArgs[2]

\* C10 witness: a rectangle with different, non-zero sides (one negative) has
\* been built and measured.
C10_Witness ==
    /\ rectPc = "measured"
    /\ rectArgs = <<0 - 2, 3>>
    /\ area = 0 - 6


\* The occurrence flag that belongs to an ordinal ("" when it has none).
FlagOf(ordinal) ==
    CASE ordinal = 1 -> "occurEl"
      [] ordinal = 2 -> "occurId"
      [] ordinal = 6 -> "occurPE"
      [] OTHER -> ""
Flags == {"occurEl", "occurId", "occurPE"}
Returned == AddCalled /\ last.thrown = None

\* C11 as stated: the builder returned by a successful add-operation shows,
\* for every occurrence flag other than the one of the category applied, the
\* value the receiver showed (after element then id both flags are set).
C11_Original ==
    Returned =>
        \A f \in Flags \ {FlagOf(last.ordinal)} :
            Get(last.ret, f) = Get(last.before, f)

\* C12: a successful add-operation returns a builder whose text is the
\* receiver's text followed by the formatted part, whose order is the
\* operation's ordinal and whose own occurrence flag (element, id,
\* pseudo-element) is 1.
C12_SuccessResult ==
    Returned =>
        /\ stringify(last.ret)
               = stringify(last.before) \o Format(<<last.ordinal, last.args[1]>>)
        /\ stringify(last.before) = Expected(last.lineage)
        /\ Get(last.ret, "order") = last.ordinal
        /\ last.ordinal \in OnceOrdinals => Get(last.ret, FlagOf(last.ordinal)) = 1

\* C12 witness: pseudoElement succeeded on a builder that holds an element and
\* an attribute.
C12_Witness ==
    /\ last.op = "pseudoElement"
    /\ last.thrown = None
    /\ stringify(last.before) = "a[b]"
    /\ stringify(last.ret) = "a[b]::a"
    /\ Get(last.ret, "order") = 6
    /\ Get(last.ret, "occurPE") = 1


\* C13: along a chain of successful add-operations without combine the order
\* never decreases from a builder to the builder derived from it, and stays
\* within 0..6.
C13_StageMonotone ==
    /\ (Returned /\ ~last.lineage.combined) =>
           /\ Get(last.before, "order") <= Get(last.ret, "order")
           /\ Get(last.before, "order") \in 0..6
           /\ Get(last.ret, "order") \in 0..6
    /\ \A s \in DOMAIN objs :
           ~hist[s].combined =>
               /\ NonDecreasing(hist[s].parts)
               /\ Get(objs[s], "order") = Stage(hist[s])
               /\ Get(objs[s], "order") \in 0..6

\* C13 witness: a pseudo-class was added to a builder whose order was 3, after
\* an id and a class.
C13_Witness ==
    /\ last.op = "pseudoClass"
    /\ last.thrown = None
    /\ ~last.lineage.combined
    /\ Len(last.lineage.parts) = 2
    /\ Get(last.before, "order") = 3
    /\ Get(last.ret, "order") = 5

\* What an add-operation of the given ordinal does on a fresh chain (one
\* started at the origin) that has had `parts` added: the error it throws, or
\* None.
FreshOutcome(parts, ordinal) ==
    LET h == [combined |-> FALSE, base |-> "", parts |-> parts]
    IN  IF ordinal < Stage(h) THEN OrderError
        ELSE IF ordinal \in OnceOrdinals /\ Stage(h) = ordinal THEN OccurError
        ELSE None

\* C14: each of the six add-operations called directly on a result of combine
\* succeeds, whatever the combined halves had used, and appends its formatted
\* part to the combined text; on builders derived from it the order and
\* occurrence checks decide as on a fresh chain with the parts added since.
C14_CombineResultOpen ==
    (AddCalled /\ last.lineage.combined) =>
        /\ last.lineage.parts = <<>> => last.thrown = None
        /\ last.thrown = FreshOutcome(last.lineage.parts, last.ordinal)
        /\ last.thrown = None =>
               stringify(last.ret)
                   = last.lineage.base
                         \o Concat(Append(last.lineage.parts,
                                          <<last.ordinal, last.args[1]>>))

\* C14 witness: an element was added directly to the combination of two
\* builders that both have an element.
C14_Witness ==
    /\ last.op = "element"
    /\ last.thrown = None
    /\ last.lineage.combined
    /\ last.lineage.parts = <<>>
    /\ last.lineage.base = "a + a"
    /\ stringify(last.ret) = "a + ab"


\* C15: when element or id is called again after a part of higher ordinal was
\* added on the same chain, the error is the order error; the occurrence
\* error is thrown only when the same once-limited operation was the
\* immediately preceding call on the chain.
C15_OrderBeforeOccur ==
    AddCalled =>
        /\ (/\ last.ordinal \in {1, 2}
            /\ Applied(last.lineage, last.ordinal)
            /\ Stage(last.lineage) > last.ordinal) => last.thrown = OrderError
        /\ last.thrown = OccurError =>
               /\ last.ordinal \in OnceOrdinals
               /\ last.lineage.parts # <<>>
               /\ Stage(last.lineage) = last.ordinal
               /\ Get(last.before, FlagOf(last.ordinal)) = 1

\* C15 witness: element, then id, then element again: the order error.
C15_Witness ==
    /\ last.op = "element"
    /\ ~last.lineage.combined
    /\ Len(last.lineage.parts) = 2
    /\ last.lineage.parts[1][1] = 1
    /\ last.lineage.parts[2][1] = 2
    /\ last.thrown = OrderError

\* The objects the program has produced that are still at hand: the global
\* object, the held builders and the value just returned.
AtHand ==
    {cssSelectorBuilder} \cup {objs[s] : s \in DOMAIN objs}
        \cup (IF last.op \in AddOps \cup {"combine"} /\ last.thrown = None
                THEN {last.ret} ELSE {})

\* C16: in every builder at most one of occurEl, occurId, occurPE is set, and
\* a set flag implies that order is the ordinal of its category.
C16_OneFlagWithItsOrder ==
    \A o \in AtHand :
        /\ Cardinality({f \in Flags : Get(o, f) # 0}) <= 1
        /\ Get(o, "occurEl") = 1 => Get(o, "order") = 1
        /\ Get(o, "occurId") = 1 => Get(o, "order") = 2
        /\ Get(o, "occurPE") = 1 => Get(o, "order") = 6

\* C16 witness: a held builder made by element, id and then pseudoElement
\* shows occurPE alone.
C16_Witness ==
    \E s \in DOMAIN objs :
        /\ ~hist[s].combined
        /\ Applied(hist[s], 1)
        /\ Applied(hist[s], 2)
        /\ Stage(hist[s]) = 6
        /\ Get(objs[s], "occurPE") = 1
        /\ Get(objs[s], "occurEl") = 0
        /\ Get(objs[s], "occurId") = 0

====
